---- MODULE Spec2Model ----
(***************************************************************************)
(* Room locations of the Highfield and Fearnhill schools and their         *)
(* Display renderings (src/src/location.rs), together with the bounded     *)
(* integer RangedU8<MIN, MAX> the rooms embed.                             *)
(*                                                                         *)
(* A string is a sequence of one-character strings; a Formatter is the     *)
(* string written so far.  Every Display::fmt takes the formatter and      *)
(* yields the formatter after its writes.                                  *)
(***************************************************************************)
EXTENDS Integers, Sequences, FiniteSets, TLC

VARIABLES pc, ranged, value, out

vars == <<pc, ranged, value, out>>

(* ---------------------------- bounds ----------------------------------- *)

\* Bound pairs MIN <= MAX are drawn from 0..MaxSmallBound, next to the two
\* instantiations the rooms use.
MaxSmallBound == 3

(* ------------------------- program constants --------------------------- *)

U8Max == 255

LevelMin == 1

LevelMax == 9

DiscriminatorMin == 1

DiscriminatorMax == 99

PadWidth == 2

(* --------------------------- std::fmt ---------------------------------- *)

DigitChar == <<"0", "1", "2", "3", "4", "5", "6", "7", "8", "9">>

\* Decimal digits of a u8, most significant first, no leading zero.
RECURSIVE Decimal(_)
Decimal(n) ==
    IF n < 10 THEN <<DigitChar[n + 1]>>
    ELSE Decimal(n \div 10) \o <<DigitChar[(n % 10) + 1]>>

\* "{:fill>width}": right-align s in a field of the given width; a longer s
\* is written whole.
RECURSIVE PadLeft(_, _, _)
PadLeft(s, fill, width) ==
    IF Len(s) >= width THEN s ELSE PadLeft(<<fill>> \o s, fill, width)

write_char(formatter, c) == Append(formatter, c)

write_str(formatter, s) == formatter \o s

(* --------------------------- RangedU8 ---------------------------------- *)

OutOfRange == "OutOfRange"

construct_NoLowerCheck(MIN, MAX, v) ==
    IF v > MAX
    THEN [ok |-> FALSE, err |-> OutOfRange]
    ELSE [ok |-> TRUE, val |-> [MIN |-> MIN, MAX |-> MAX, value |-> v]]

construct_ExclusiveMax(MIN, MAX, v) ==
    IF v < MIN \/ v >= MAX
    THEN [ok |-> FALSE, err |-> OutOfRange]
    ELSE [ok |-> TRUE, val |-> [MIN |-> MIN, MAX |-> MAX, value |-> v]]

\* RangedU8::<MIN, MAX>::construct(v)
construct(MIN, MAX, v) ==
    IF v < MIN \/ v > MAX
    THEN [ok |-> FALSE, err |-> OutOfRange]
    ELSE [ok |-> TRUE, val |-> [MIN |-> MIN, MAX |-> MAX, value |-> v]]

get(r) == r.value

RangedU8(MIN, MAX) ==
    {[MIN |-> MIN, MAX |-> MAX, value |-> v] : v \in MIN..MAX}

(* ----------------------------- types ----------------------------------- *)

HighfieldBlock == {"Howard", "Parker", "Unwin"}

HighfieldFloor ==
    {[kind |-> "Ground"]}
    \cup {[kind |-> "Level", level |-> l] : l \in RangedU8(LevelMin, LevelMax)}

HighfieldRoom ==
    {[kind |-> "Hall"], [kind |-> "SportsHall"]}
    \cup {[kind |-> "Classroom", block |-> b, floor |-> f, discriminator |-> d] :
            b \in HighfieldBlock, f \in HighfieldFloor,
            d \in RangedU8(DiscriminatorMin, DiscriminatorMax)}

FearnhillSection ==
    {"Science", "Business", "PSHE", "Languages", "Technology",
     "Mathematics", "English", "Music", "Humanities", "IT"}

FearnhillRoom ==
    {[kind |-> "SportsHall"], [kind |-> "Gym"],
     [kind |-> "DanceStudio"], [kind |-> "DramaStudio"]}
    \cup {[kind |-> "Classroom", section |-> s, discriminator |-> d] :
            s \in FearnhillSection,
            d \in RangedU8(DiscriminatorMin, DiscriminatorMax)}

Location ==
    {[school |-> "Highfield", room |-> r] : r \in HighfieldRoom}
    \cup {[school |-> "Fearnhill", room |-> r] : r \in FearnhillRoom}

(* ---------------------------- Display ---------------------------------- *)

FmtHighfieldBlock(self, formatter) ==
    CASE self = "Howard" -> write_char(formatter, "H")
      [] self = "Parker" -> write_char(formatter, "P")
      [] self = "Unwin"  -> write_char(formatter, "U")

FmtHighfieldFloor(self, formatter) ==
    IF self.kind = "Ground"
    THEN write_char(formatter, "G")
    ELSE write_str(formatter, Decimal(get(self.level)))

FmtHighfieldRoom_NoPad(self, formatter) ==
    CASE self.kind = "Hall" -> write_str(formatter, <<"H", "a", "l", "l">>)
      [] self.kind = "SportsHall" ->
            write_str(formatter,
                      <<"S", "p", "o", "r", "t", "s", " ", "H", "a", "l", "l">>)
      [] self.kind = "Classroom" ->
            write_str(FmtHighfieldFloor(self.floor,
                          FmtHighfieldBlock(self.block, formatter)),
                      Decimal(get(self.discriminator)))

FmtHighfieldRoom_FloorFirst(self, formatter) ==
    CASE self.kind = "Hall" -> write_str(formatter, <<"H", "a", "l", "l">>)
      [] self.kind = "SportsHall" ->
            write_str(formatter,
                      <<"S", "p", "o", "r", "t", "s", " ", "H", "a", "l", "l">>)
      [] self.kind = "Classroom" ->
            write_str(FmtHighfieldBlock(self.block,
                          FmtHighfieldFloor(self.floor, formatter)),
                      PadLeft(Decimal(get(self.discriminator)), "0", PadWidth))

FmtHighfieldRoom(self, formatter) ==
    CASE self.kind = "Hall" -> write_str(formatter, <<"H", "a", "l", "l">>)
      [] self.kind = "SportsHall" ->
            write_str(formatter,
                      <<"S", "p", "o", "r", "t", "s", " ", "H", "a", "l", "l">>)
      [] self.kind = "Classroom" ->
            write_str(FmtHighfieldFloor(self.floor,
                          FmtHighfieldBlock(self.block, formatter)),
                      PadLeft(Decimal(get(self.discriminator)), "0", PadWidth))

FmtFearnhillSection_MusicM(self, formatter) ==
    CASE self = "Science"     -> write_str(formatter, <<"S">>)
      [] self = "Business"    -> write_str(formatter, <<"B">>)
      [] self = "PSHE"        -> write_str(formatter, <<"P">>)
      [] self = "Languages"   -> write_str(formatter, <<"L">>)
      [] self = "Technology"  -> write_str(formatter, <<"T">>)
      [] self = "Mathematics" -> write_str(formatter, <<"M">>)
      [] self = "English"     -> write_str(formatter, <<"E">>)
      [] self = "Music"       -> write_str(formatter, <<"M">>)
      [] self = "Humanities"  -> write_str(formatter, <<"H">>)
      [] self = "IT"          -> write_str(formatter, <<"I">>)

FmtFearnhillSection(self, formatter) ==
    CASE self = "Science"     -> write_str(formatter, <<"S">>)
      [] self = "Business"    -> write_str(formatter, <<"B">>)
      [] self = "PSHE"        -> write_str(formatter, <<"P">>)
      [] self = "Languages"   -> write_str(formatter, <<"L">>)
      [] self = "Technology"  -> write_str(formatter, <<"T">>)
      [] self = "Mathematics" -> write_str(formatter, <<"M">>)
      [] self = "English"     -> write_str(formatter, <<"E">>)
      [] self = "Music"       -> write_str(formatter, <<"M", "u">>)
      [] self = "Humanities"  -> write_str(formatter, <<"H">>)
      [] self = "IT"          -> write_str(formatter, <<"I">>)

FmtFearnhillRoom_Padded(self, formatter) ==
    CASE self.kind = "SportsHall" ->
            write_str(formatter,
                      <<"S", "p", "o", "r", "t", "s", " ", "H", "a", "l", "l">>)
      [] self.kind = "Gym" -> write_str(formatter, <<"G", "y", "m">>)
      [] self.kind = "DanceStudio" ->
            write_str(formatter,
                      <<"D", "a", "n", "c", "e", " ",
                        "S", "t", "u", "d", "i", "o">>)
      [] self.kind = "DramaStudio" ->
            write_str(formatter,
                      <<"D", "r", "a", "m", "a", " ",
                        "S", "t", "u", "d", "i", "o">>)
      [] self.kind = "Classroom" ->
            write_str(FmtFearnhillSection(self.section, formatter),
                      PadLeft(Decimal(get(self.discriminator)), "0", PadWidth))

FmtFearnhillRoom_DramaAsDance(self, formatter) ==
    CASE self.kind = "SportsHall" ->
            write_str(formatter,
                      <<"S", "p", "o", "r", "t", "s", " ", "H", "a", "l", "l">>)
      [] self.kind = "Gym" -> write_str(formatter, <<"G", "y", "m">>)
      [] self.kind = "DanceStudio" ->
            write_str(formatter,
                      <<"D", "a", "n", "c", "e", " ",
                        "S", "t", "u", "d", "i", "o">>)
      [] self.kind = "DramaStudio" ->
            write_str(formatter,
                      <<"D", "a", "n", "c", "e", " ",
                        "S", "t", "u", "d", "i", "o">>)
      [] self.kind = "Classroom" ->
            write_str(FmtFearnhillSection(self.section, formatter),
                      Decimal(get(self.discriminator)))

FmtFearnhillRoom(self, formatter) ==
    CASE self.kind = "SportsHall" ->
            write_str(formatter,
                      <<"S", "p", "o", "r", "t", "s", " ", "H", "a", "l", "l">>)
      [] self.kind = "Gym" -> write_str(formatter, <<"G", "y", "m">>)
      [] self.kind = "DanceStudio" ->
            write_str(formatter,
                      <<"D", "a", "n", "c", "e", " ",
                        "S", "t", "u", "d", "i", "o">>)
      [] self.kind = "DramaStudio" ->
            write_str(formatter,
                      <<"D", "r", "a", "m", "a", " ",
                        "S", "t", "u", "d", "i", "o">>)
      [] self.kind = "Classroom" ->
            write_str(FmtFearnhillSection(self.section, formatter),
                      Decimal(get(self.discriminator)))

FmtLocation_NoPrefix(self, formatter) ==
    IF self.school = "Highfield"
    THEN FmtHighfieldRoom(self.room, formatter)
    ELSE FmtFearnhillRoom(self.room, formatter)

FmtLocation_NoSpace(self, formatter) ==
    IF self.school = "Highfield"
    THEN FmtHighfieldRoom(self.room, formatter)
    ELSE FmtFearnhillRoom(self.room, write_str(formatter, <<"F", "H">>))

FmtLocation(self, formatter) ==
    IF self.school = "Highfield"
    THEN FmtHighfieldRoom(self.room, formatter)
    ELSE FmtFearnhillRoom(self.room, write_str(formatter, <<"F", "H", " ">>))

\* to_string(): Display::fmt into an empty formatter.
Empty == <<>>

(* ----------------------------- state ----------------------------------- *)

None == [ty |-> "None"]

\* The instantiations RangedU8<MIN, MAX> that are constructed.
BoundPairs ==
    {<<LevelMin, LevelMax>>, <<DiscriminatorMin, DiscriminatorMax>>}
    \cup {p \in (0..MaxSmallBound) \X (0..MaxSmallBound) : p[1] <= p[2]}

U8 == 0..U8Max

Call(MIN, MAX, v) ==
    [MIN |-> MIN, MAX |-> MAX, arg |-> v, result |-> construct(MIN, MAX, v)]

Init ==
    /\ pc = "start"
    /\ ranged = None
    /\ value = None
    /\ out = Empty

\* A caller constructs a bounded integer and keeps the result.
Construct(MIN, MAX, v) ==
    /\ pc = "start"
    /\ ranged' = Call(MIN, MAX, v)
    /\ pc' = IF ranged'.result.ok THEN "ranged" ELSE "failed"
    /\ UNCHANGED <<value, out>>

NewHighfieldBlock(b) ==
    /\ pc = "start"
    /\ value' = [ty |-> "HighfieldBlock", v |-> b]
    /\ pc' = "built"
    /\ UNCHANGED <<ranged, out>>

NewGround ==
    /\ pc = "start"
    /\ value' = [ty |-> "HighfieldFloor", v |-> [kind |-> "Ground"]]
    /\ pc' = "built"
    /\ UNCHANGED <<ranged, out>>

\* HighfieldFloor::Level(RangedU8::<1, 9>::construct(raw)?)
NewLevel(raw) ==
    /\ pc = "start"
    /\ ranged' = Call(LevelMin, LevelMax, raw)
    /\ IF ranged'.result.ok
       THEN /\ value' = [ty |-> "HighfieldFloor",
                         v |-> [kind |-> "Level", level |-> ranged'.result.val]]
            /\ pc' = "built"
       ELSE /\ value' = value
            /\ pc' = "failed"
    /\ UNCHANGED out

NewHighfieldHall(kind) ==
    /\ pc = "start"
    /\ kind \in {"Hall", "SportsHall"}
    /\ value' = [ty |-> "HighfieldRoom", v |-> [kind |-> kind]]
    /\ pc' = "built"
    /\ UNCHANGED <<ranged, out>>

\* HighfieldRoom::Classroom { block, floor, discriminator } around a floor
\* already built.
NewHighfieldClassroom(block, raw) ==
    /\ pc = "built"
    /\ value.ty = "HighfieldFloor"
    /\ ranged' = Call(DiscriminatorMin, DiscriminatorMax, raw)
    /\ IF ranged'.result.ok
       THEN /\ value' = [ty |-> "HighfieldRoom",
                         v |-> [kind |-> "Classroom", block |-> block,
                                floor |-> value.v,
                                discriminator |-> ranged'.result.val]]
            /\ pc' = "built"
       ELSE /\ value' = value
            /\ pc' = "failed"
    /\ UNCHANGED out

NewFearnhillSection(s) ==
    /\ pc = "start"
    /\ value' = [ty |-> "FearnhillSection", v |-> s]
    /\ pc' = "built"
    /\ UNCHANGED <<ranged, out>>

NewFearnhillHall(kind) ==
    /\ pc = "start"
    /\ kind \in {"SportsHall", "Gym", "DanceStudio", "DramaStudio"}
    /\ value' = [ty |-> "FearnhillRoom", v |-> [kind |-> kind]]
    /\ pc' = "built"
    /\ UNCHANGED <<ranged, out>>

\* FearnhillRoom::Classroom { section, discriminator } around a section
\* already built.
NewFearnhillClassroom(raw) ==
    /\ pc = "built"
    /\ value.ty = "FearnhillSection"
    /\ ranged' = Call(DiscriminatorMin, DiscriminatorMax, raw)
    /\ IF ranged'.result.ok
       THEN /\ value' = [ty |-> "FearnhillRoom",
                         v |-> [kind |-> "Classroom", section |-> value.v,
                                discriminator |-> ranged'.result.val]]
            /\ pc' = "built"
       ELSE /\ value' = value
            /\ pc' = "failed"
    /\ UNCHANGED out

\* Location::Highfield(room)
NewLocationHighfield ==
    /\ pc = "built"
    /\ value.ty = "HighfieldRoom"
    /\ value' = [ty |-> "Location",
                 v |-> [school |-> "Highfield", room |-> value.v]]
    /\ UNCHANGED <<pc, ranged, out>>

\* Location::Fearnhill(room)
NewLocationFearnhill ==
    /\ pc = "built"
    /\ value.ty = "FearnhillRoom"
    /\ value' = [ty |-> "Location",
                 v |-> [school |-> "Fearnhill", room |-> value.v]]
    /\ UNCHANGED <<pc, ranged, out>>

\* HighfieldBlock::to_string(): Display::fmt into an empty formatter.
DisplayHighfieldBlock ==
    /\ pc = "built"
    /\ value.ty = "HighfieldBlock"
    /\ out' = FmtHighfieldBlock(value.v, Empty)
    /\ pc' = "rendered"
    /\ UNCHANGED <<ranged, value>>

\* HighfieldFloor::to_string(): Display::fmt into an empty formatter.
DisplayHighfieldFloor ==
    /\ pc = "built"
    /\ value.ty = "HighfieldFloor"
    /\ out' = FmtHighfieldFloor(value.v, Empty)
    /\ pc' = "rendered"
    /\ UNCHANGED <<ranged, value>>

\* HighfieldRoom::to_string(): Display::fmt into an empty formatter.
DisplayHighfieldRoom ==
    /\ pc = "built"
    /\ value.ty = "HighfieldRoom"
    /\ out' = FmtHighfieldRoom(value.v, Empty)
    /\ pc' = "rendered"
    /\ UNCHANGED <<ranged, value>>

\* FearnhillSection::to_string(): Display::fmt into an empty formatter.
DisplayFearnhillSection ==
    /\ pc = "built"
    /\ value.ty = "FearnhillSection"
    /\ out' = FmtFearnhillSection(value.v, Empty)
    /\ pc' = "rendered"
    /\ UNCHANGED <<ranged, value>>

\* FearnhillRoom::to_string(): Display::fmt into an empty formatter.
DisplayFearnhillRoom ==
    /\ pc = "built"
    /\ value.ty = "FearnhillRoom"
    /\ out' = FmtFearnhillRoom(value.v, Empty)
    /\ pc' = "rendered"
    /\ UNCHANGED <<ranged, value>>

\* Location::to_string(): Display::fmt into an empty formatter.
DisplayLocation ==
    /\ pc = "built"
    /\ value.ty = "Location"
    /\ out' = FmtLocation(value.v, Empty)
    /\ pc' = "rendered"
    /\ UNCHANGED <<ranged, value>>

Next ==
    \/ \E p \in BoundPairs, v \in U8 : Construct(p[1], p[2], v)
    \/ \E b \in HighfieldBlock : NewHighfieldBlock(b)
    \/ NewGround
    \/ \E raw \in U8 : NewLevel(raw)
    \/ \E k \in {"Hall", "SportsHall"} : NewHighfieldHall(k)
    \/ \E b \in HighfieldBlock, raw \in U8 : NewHighfieldClassroom(b, raw)
    \/ \E s \in FearnhillSection : NewFearnhillSection(s)
    \/ \E k \in {"SportsHall", "Gym", "DanceStudio", "DramaStudio"} :
          NewFearnhillHall(k)
    \/ \E raw \in U8 : NewFearnhillClassroom(raw)
    \/ NewLocationHighfield
    \/ NewLocationFearnhill
    \/ DisplayHighfieldBlock
    \/ DisplayHighfieldFloor
    \/ DisplayHighfieldRoom
    \/ DisplayFearnhillSection
    \/ DisplayFearnhillRoom
    \/ DisplayLocation

Spec == Init /\ [][Next]_vars

(* ------------------------ derived values ------------------------------- *)

\* Every RangedU8 instance that exists in the state: the one the last
\* construct call returned and those embedded in the value.
RangedIn(x) ==
    CASE x.ty = "HighfieldFloor" ->
            IF x.v.kind = "Level" THEN {x.v.level} ELSE {}
      [] x.ty = "HighfieldRoom" ->
            IF x.v.kind = "Classroom"
            THEN {x.v.discriminator}
                 \cup (IF x.v.floor.kind = "Level"
                       THEN {x.v.floor.level} ELSE {})
            ELSE {}
      [] x.ty = "FearnhillRoom" ->
            IF x.v.kind = "Classroom" THEN {x.v.discriminator} ELSE {}
      [] x.ty = "Location" ->
            IF x.v.room.kind = "Classroom"
            THEN {x.v.room.discriminator}
                 \cup (IF x.v.school = "Highfield"
                          /\ x.v.room.floor.kind = "Level"
                       THEN {x.v.room.floor.level} ELSE {})
            ELSE {}
      [] OTHER -> {}

Instances ==
    RangedIn(value)
    \cup (IF ranged # None /\ ranged.result.ok THEN {ranged.result.val} ELSE {})

\* Each location, room of either school, paired with its to_string().
RenderedLocations == {<<b, FmtLocation(b, Empty)>> : b \in Location}

RenderedFearnhillRooms == {<<f, FmtFearnhillRoom(f, Empty)>> : f \in FearnhillRoom}

Rendered(ty) == pc = "rendered" /\ value.ty = ty

(* ------------------------------ claims --------------------------------- *)

\* C1: rendering of Location is injective: whenever a Location has been
\* rendered, every Location with the same rendering is that Location; the
\* Highfield sports hall does not render as the Fearnhill sports hall does.
C1_RenderInjective ==
    Rendered("Location") =>
        /\ \A p \in RenderedLocations : p[2] = out => p[1] = value.v
        /\ value.v = [school |-> "Highfield", room |-> [kind |-> "SportsHall"]]
              => out # FmtLocation([school |-> "Fearnhill",
                                    room |-> [kind |-> "SportsHall"]], Empty)

C1_Witness ==
    /\ Rendered("Location")
    /\ value.v = [school |-> "Highfield", room |-> [kind |-> "SportsHall"]]

\* C2: a Highfield location renders exactly as its room does, and a
\* Fearnhill location renders as "FH " followed by the rendering of its room.
C2_SchoolPrefix ==
    Rendered("Location") =>
        IF value.v.school = "Highfield"
        THEN out = FmtHighfieldRoom(value.v.room, Empty)
        ELSE /\ out = <<"F", "H", " ">> \o FmtFearnhillRoom(value.v.room, Empty)
             /\ Len(out) = 3 + Len(FmtFearnhillRoom(value.v.room, Empty))

C2_Witness ==
    /\ Rendered("Location")
    /\ value.v.school = "Fearnhill"
    /\ value.v.room.kind = "Classroom"
    /\ out = <<"F", "H", " ", "M", "u", "4">>

\* C3: a Highfield classroom renders as its block, then its floor, then its
\* discriminator as exactly two decimal digits, four characters in all.
C3_HighfieldClassroom ==
    (Rendered("HighfieldRoom") /\ value.v.kind = "Classroom") =>
        LET d == get(value.v.discriminator)
            c == value.v
        IN  /\ out = FmtHighfieldBlock(c.block, Empty)
                     \o FmtHighfieldFloor(c.floor, Empty)
                     \o <<DigitChar[(d \div 10) + 1], DigitChar[(d % 10) + 1]>>
            /\ Len(out) = 4
            /\ (d < 10 => out[3] = "0")
            /\ (c.block = "Unwin" /\ c.floor.kind = "Ground" /\ d = 1)
                  => out = <<"U", "G", "0", "1">>
            /\ (c.block = "Howard" /\ c.floor.kind = "Level"
                /\ get(c.floor.level) = 9 /\ d = 99)
                  => out = <<"H", "9", "9", "9">>
            /\ (c.block = "Parker" /\ c.floor.kind = "Level"
                /\ get(c.floor.level) = 3 /\ d = 27)
                  => out = <<"P", "3", "2", "7">>

C3_Witness ==
    /\ Rendered("HighfieldRoom")
    /\ value.v.kind = "Classroom"
    /\ get(value.v.discriminator) = 1
    /\ out = <<"U", "G", "0", "1">>

\* C4: a Fearnhill classroom renders as its section code followed by the
\* discriminator in plain decimal: one digit for 1..9, two for 10..99, and
\* never a leading zero.
C4_FearnhillClassroom ==
    (Rendered("FearnhillRoom") /\ value.v.kind = "Classroom") =>
        LET d == get(value.v.discriminator)
            sec == FmtFearnhillSection(value.v.section, Empty)
            digits == IF d < 10
                      THEN <<DigitChar[d + 1]>>
                      ELSE <<DigitChar[(d \div 10) + 1], DigitChar[(d % 10) + 1]>>
        IN  /\ out = sec \o digits
            /\ Len(out) = Len(sec) + (IF d < 10 THEN 1 ELSE 2)
            /\ out[Len(sec) + 1] # "0"
            /\ (value.v.section = "English" /\ d = 1) => out = <<"E", "1">>
            /\ (value.v.section = "Science" /\ d = 12) => out = <<"S", "1", "2">>

C4_Witness ==
    /\ Rendered("FearnhillRoom")
    /\ value.v.kind = "Classroom"
    /\ get(value.v.discriminator) = 1
    /\ out = <<"E", "1">>

\* C5: construct(value) with MIN <= value <= MAX, both ends included,
\* succeeds and get() of the result is value; every RangedU8 that exists
\* holds a value within its bounds.
C5_ConstructInRange ==
    /\ (ranged # None /\ ranged.MIN <= ranged.arg /\ ranged.arg <= ranged.MAX)
          => /\ ranged.result.ok
             /\ get(ranged.result.val) = ranged.arg
             /\ pc # "failed"
    /\ \A r \in Instances : r.MIN <= get(r) /\ get(r) <= r.MAX

C5_Witness ==
    /\ ranged # None
    /\ ranged.MIN < ranged.MAX
    /\ ranged.arg = ranged.MAX
    /\ ranged.result.ok
    /\ get(ranged.result.val) = DiscriminatorMax

C7_FixedLiterals ==
    (Rendered("Location") /\ value.v.room.kind # "Classroom") =>
        LET s == value.v.school
            k == value.v.room.kind
        IN  /\ (s = "Highfield" /\ k = "Hall") => out = <<"H", "a", "l", "l">>
            /\ (s = "Highfield" /\ k = "SportsHall")
                  => out = <<"S", "p", "o", "r", "t", "s", " ",
                             "H", "a", "l", "l">>
            /\ (s = "Fearnhill" /\ k = "SportsHall")
                  => out = <<"F", "H", " ", "S", "p", "o", "r", "t", "s", " ",
                             "H", "a", "l", "l">>
            /\ (s = "Fearnhill" /\ k = "Gym")
                  => out = <<"F", "H", " ", "G", "y", "m">>
            /\ (s = "Fearnhill" /\ k = "DanceStudio")
                  => out = <<"F", "H", " ", "D", "a", "n", "c", "e", " ",
                             "S", "t", "u", "d", "i", "o">>
            /\ (s = "Fearnhill" /\ k = "DramaStudio")
                  => out = <<"F", "H", " ", "D", "r", "a", "m", "a", " ",
                             "S", "t", "u", "d", "i", "o">>

C7_Witness ==
    /\ Rendered("Location")
    /\ value.v.school = "Fearnhill"
    /\ value.v.room.kind = "DramaStudio"

\* C8: the ten section codes are S, B, P, L, T, M, E, Mu, H, I; they are
\* pairwise distinct, one or two letters long, and only Music has two.
C8_SectionCodes ==
    Rendered("FearnhillSection") =>
        LET s == value.v
        IN  /\ out = CASE s = "Science"     -> <<"S">>
                       [] s = "Business"    -> <<"B">>
                       [] s = "PSHE"        -> <<"P">>
                       [] s = "Languages"   -> <<"L">>
                       [] s = "Technology"  -> <<"T">>
                       [] s = "Mathematics" -> <<"M">>
                       [] s = "English"     -> <<"E">>
                       [] s = "Music"       -> <<"M", "u">>
                       [] s = "Humanities"  -> <<"H">>
                       [] s = "IT"          -> <<"I">>
            /\ \A t \in FearnhillSection :
                  FmtFearnhillSection(t, Empty) = out => t = s
            /\ Len(out) \in {1, 2}
            /\ Len(out) = 2 <=> s = "Music"

C8_Witness ==
    /\ Rendered("FearnhillSection")
    /\ value.v = "Music"
    /\ out = <<"M", "u">>

\* C10: without the Location wrapper the two room renderers agree on
\* "Sports Hall" only: a rendered Highfield room equals the rendering of a
\* Fearnhill room only when both are the sports hall, and no Highfield room
\* rendering begins with "FH ".
C10_OnlySportsHallShared ==
    Rendered("HighfieldRoom") =>
        /\ \A p \in RenderedFearnhillRooms :
              p[2] = out => /\ value.v = [kind |-> "SportsHall"]
                            /\ p[1] = [kind |-> "SportsHall"]
        /\ Len(out) >= 3 => SubSeq(out, 1, 3) # <<"F", "H", " ">>
        /\ value.v.kind = "Classroom"
              => \A p \in RenderedFearnhillRooms :
                    p[1].kind = "Classroom" => p[2] # out

C10_Witness ==
    /\ Rendered("HighfieldRoom")
    /\ value.v.kind = "Classroom"
    /\ value.v.block = "Howard"
    /\ value.v.floor.kind = "Level"
    /\ out = <<"H", "1", "1", "5">>

====
